---- MODULE Spec2Model ----
(***************************************************************************)
(* A model of staticpedia: the site tree (src/src/site.rs), the HTML text  *)
(* escaper (src/src/render.rs) and the markup parser of the macros crate   *)
(* (src/macros/src/ast/*.rs).                                              *)
(*                                                                         *)
(* Three specifications share the module; each drives one component and   *)
(* leaves the variables of the other components at their idle values:     *)
(*   SpecTree   - Directory::insert / Directory::get on a Site root       *)
(*   SpecRender - <str as Render>::to_html                                *)
(*   SpecPage   - Page::parse / Section::parse on a token stream          *)
(*   SpecInline - inline::Component::parse on a token stream              *)
(***************************************************************************)
EXTENDS Integers, Sequences, FiniteSets, TLC

VARIABLES
    root,       \* Site.root: the root Directory (its contents map)
    prev,       \* the root Directory before the last operation
    op,         \* the last operation on the tree: name, path, node, status
    inserted,   \* the (path, node) pairs of the inserts that succeeded
    panicked,   \* whether some insert has panicked
    nops,       \* how many tree operations have run
    text,       \* the str handed to <str as Render>::to_html
    html,       \* what to_html wrote to the formatter
    rendered,   \* "no" before to_html ran, then "ok" or "panic"
    kind,       \* what is parsed: "page", "section" or "inline"
    decls,      \* the field declarations the record's token stream is made of
    input,      \* the token stream handed to the parser
    result,     \* what the parser returned
    parsed,     \* whether the parser has run
    iter,       \* the Pages iterator: curr_loc, curr_iter, directories
    yielded,    \* the items the iterator has returned, in order
    iterating,  \* "no", "yes" once into_iter was called, "done" after None
    gen,        \* Generator::gen: its fields, its position, copy_assets' locals
    files,      \* the files under output_dir that gen has created
    log         \* the I/O operations gen has made, in order

treeVars == <<root, prev, op, inserted, panicked, nops>>

renderVars == <<text, html, rendered>>

parseVars == <<kind, decls, input, result, parsed>>

iterVars == <<iter, yielded, iterating>>

genVars == <<gen, files, log>>

vars == <<treeVars, renderVars, parseVars, iterVars, genVars>>

(***************************************************************************)
(* Bounds of the model.                                                    *)
(***************************************************************************)
MaxDepth == 2       \* longest path handed to insert / get
MaxOps == 2         \* tree operations per behaviour
MaxStrLen == 4      \* longest str rendered, in characters
MaxFields == 3      \* most field declarations in a parsed record
MaxUnits == 4       \* most units (terms, prefixes, groups) in an inline stream

(***************************************************************************)
(* Document tree: Fragment, InternalPath, Page, Node, Directory.           *)
(***************************************************************************)
Fragments == {"a", "b"}
Pages == {"P1", "P2"}

\* InternalPath.fragments: every sequence of Fragments of at most n segments
RECURSIVE PathsUpTo(_)
PathsUpTo(n) ==
    IF n = 0 THEN {<<>>}
    ELSE LET shorter == PathsUpTo(n - 1)
         IN shorter \cup {Append(p, f) : p \in shorter, f \in Fragments}

Paths == PathsUpTo(MaxDepth)

\* Directory::default(): a directory whose contents map is empty
EmptyDir == [f \in {} |-> "none"]

\* Node::Page(page)
PageNode(page) == [kind |-> "page", page |-> page, contents |-> EmptyDir]

\* Node::Directory(dir), dir given by its contents map
DirNode(contents) == [kind |-> "dir", page |-> "none", contents |-> contents]

\* Option::None of Directory::get
NotFound == [kind |-> "none", page |-> "none", contents |-> EmptyDir]

\* the last of the walks before the first segment: None
NoFragment == "none"

\* HashMap::insert / the slot an Entry writes
Put(contents, key, node) ==
    [f \in DOMAIN contents \cup {key} |-> IF f = key THEN node ELSE contents[f]]

\* GetWalk with a missing non-final segment skipped instead of ending the walk
RECURSIVE GetWalkSkipsMissing(_, _, _, _)
GetWalkSkipsMissing(dir, fragments, i, last) ==
    IF i <= Len(fragments)
    THEN IF last # NoFragment
         THEN IF last \notin DOMAIN dir
              THEN GetWalkSkipsMissing(dir, fragments, i + 1, fragments[i])
              ELSE IF dir[last].kind # "dir" THEN NotFound
              ELSE GetWalkSkipsMissing(dir[last].contents, fragments, i + 1,
                                       fragments[i])
         ELSE GetWalkSkipsMissing(dir, fragments, i + 1, fragments[i])
    ELSE IF last = NoFragment THEN NotFound
         ELSE IF last \notin DOMAIN dir THEN NotFound
         ELSE dir[last]

\* GetWalk with a Page met at a non-final segment returned as what was found
RECURSIVE GetWalkStopsAtPage(_, _, _, _)
GetWalkStopsAtPage(dir, fragments, i, last) ==
    IF i <= Len(fragments)
    THEN IF last # NoFragment
         THEN IF last \notin DOMAIN dir THEN NotFound
              ELSE IF dir[last].kind # "dir" THEN dir[last]
              ELSE GetWalkStopsAtPage(dir[last].contents, fragments, i + 1,
                                      fragments[i])
         ELSE GetWalkStopsAtPage(dir, fragments, i + 1, fragments[i])
    ELSE IF last = NoFragment THEN NotFound
         ELSE IF last \notin DOMAIN dir THEN NotFound
         ELSE dir[last]

\* Directory::get, the loop at iteration i with dir and last
RECURSIVE GetWalk(_, _, _, _)
GetWalk(dir, fragments, i, last) ==
    IF i <= Len(fragments)
    THEN IF last # NoFragment
         THEN IF last \notin DOMAIN dir THEN NotFound            \* contents.get(last)?
              ELSE IF dir[last].kind # "dir" THEN NotFound       \* .dir()?
              ELSE GetWalk(dir[last].contents, fragments, i + 1, fragments[i])
         ELSE GetWalk(dir, fragments, i + 1, fragments[i])
    ELSE IF last = NoFragment THEN NotFound                      \* last?
         ELSE IF last \notin DOMAIN dir THEN NotFound            \* contents.get(..)?
         ELSE dir[last]

Get(dir, path) == GetWalk(dir, path, 1, NoFragment)

\* InsertWalk with the walk continuing in a copy of the intermediate directory,
\* so that what is inserted below it is lost
RECURSIVE InsertWalkIntoCopy(_, _, _, _, _)
InsertWalkIntoCopy(dir, fragments, i, last, node) ==
    IF i <= Len(fragments)
    THEN IF last # NoFragment
         THEN LET entry == IF last \in DOMAIN dir THEN dir[last]
                           ELSE DirNode(EmptyDir)
                  held == Put(dir, last, entry)
              IN IF entry.kind # "dir"
                 THEN [dir |-> held, status |-> "Must be a directory"]
                 ELSE LET below == InsertWalkIntoCopy(entry.contents, fragments,
                                                      i + 1, fragments[i], node)
                      IN [dir |-> held, status |-> below.status]
         ELSE InsertWalkIntoCopy(dir, fragments, i + 1, fragments[i], node)
    ELSE IF last = NoFragment
         THEN [dir |-> dir, status |-> "Cannot insert at root"]
         ELSE IF last \in DOMAIN dir
              THEN [dir |-> dir, status |-> "Cannot insert if already occupied"]
              ELSE [dir |-> Put(dir, last, node), status |-> "ok"]

\* InsertWalk with the Entry of the final segment written whether vacant or not
RECURSIVE InsertWalkOverwrites(_, _, _, _, _)
InsertWalkOverwrites(dir, fragments, i, last, node) ==
    IF i <= Len(fragments)
    THEN IF last # NoFragment
         THEN LET entry == IF last \in DOMAIN dir THEN dir[last]
                           ELSE DirNode(EmptyDir)
                  held == Put(dir, last, entry)
              IN IF entry.kind # "dir"
                 THEN [dir |-> held, status |-> "Must be a directory"]
                 ELSE LET below == InsertWalkOverwrites(entry.contents, fragments,
                                                        i + 1, fragments[i], node)
                      IN [dir |-> Put(held, last, DirNode(below.dir)),
                          status |-> below.status]
         ELSE InsertWalkOverwrites(dir, fragments, i + 1, fragments[i], node)
    ELSE IF last = NoFragment
         THEN [dir |-> dir, status |-> "Cannot insert at root"]
         ELSE [dir |-> Put(dir, last, node), status |-> "ok"]

\* InsertWalk with a Page met at a non-final segment replaced by a new, empty
\* directory instead of the walk ending
RECURSIVE InsertWalkReplacesPage(_, _, _, _, _)
InsertWalkReplacesPage(dir, fragments, i, last, node) ==
    IF i <= Len(fragments)
    THEN IF last # NoFragment
         THEN LET entry == IF last \in DOMAIN dir /\ dir[last].kind = "dir"
                           THEN dir[last]
                           ELSE DirNode(EmptyDir)
                  below == InsertWalkReplacesPage(entry.contents, fragments,
                                                  i + 1, fragments[i], node)
              IN [dir |-> Put(dir, last, DirNode(below.dir)),
                  status |-> below.status]
         ELSE InsertWalkReplacesPage(dir, fragments, i + 1, fragments[i], node)
    ELSE IF last = NoFragment
         THEN [dir |-> dir, status |-> "Cannot insert at root"]
         ELSE IF last \in DOMAIN dir
              THEN [dir |-> dir, status |-> "Cannot insert if already occupied"]
              ELSE [dir |-> Put(dir, last, node), status |-> "ok"]

\* InsertWalk with a Page met at a non-final segment turned into an empty
\* directory before the walk ends in the panic
RECURSIVE InsertWalkClearsPage(_, _, _, _, _)
InsertWalkClearsPage(dir, fragments, i, last, node) ==
    IF i <= Len(fragments)
    THEN IF last # NoFragment
         THEN LET entry == IF last \in DOMAIN dir THEN dir[last]
                           ELSE DirNode(EmptyDir)
                  held == Put(dir, last, entry)
              IN IF entry.kind # "dir"
                 THEN [dir |-> Put(dir, last, DirNode(EmptyDir)),
                       status |-> "Must be a directory"]
                 ELSE LET below == InsertWalkClearsPage(entry.contents, fragments,
                                                        i + 1, fragments[i], node)
                      IN [dir |-> Put(held, last, DirNode(below.dir)),
                          status |-> below.status]
         ELSE InsertWalkClearsPage(dir, fragments, i + 1, fragments[i], node)
    ELSE IF last = NoFragment
         THEN [dir |-> dir, status |-> "Cannot insert at root"]
         ELSE IF last \in DOMAIN dir
              THEN [dir |-> dir, status |-> "Cannot insert if already occupied"]
              ELSE [dir |-> Put(dir, last, node), status |-> "ok"]

\* InsertWalk with a new, empty directory put at every non-final segment that
\* is not a Page, whether a directory was there or not
RECURSIVE InsertWalkResetsDirectory(_, _, _, _, _)
InsertWalkResetsDirectory(dir, fragments, i, last, node) ==
    IF i <= Len(fragments)
    THEN IF last # NoFragment
         THEN LET entry == IF last \in DOMAIN dir /\ dir[last].kind # "dir"
                           THEN dir[last]
                           ELSE DirNode(EmptyDir)
                  held == Put(dir, last, entry)
              IN IF entry.kind # "dir"
                 THEN [dir |-> held, status |-> "Must be a directory"]
                 ELSE LET below == InsertWalkResetsDirectory(entry.contents,
                                       fragments, i + 1, fragments[i], node)
                      IN [dir |-> Put(held, last, DirNode(below.dir)),
                          status |-> below.status]
         ELSE InsertWalkResetsDirectory(dir, fragments, i + 1, fragments[i], node)
    ELSE IF last = NoFragment
         THEN [dir |-> dir, status |-> "Cannot insert at root"]
         ELSE IF last \in DOMAIN dir
              THEN [dir |-> dir, status |-> "Cannot insert if already occupied"]
              ELSE [dir |-> Put(dir, last, node), status |-> "ok"]

\* Directory::insert, the loop at iteration i with dir and last; the result
\* is the directory as the call leaves it (also when it panics) and how it ended
RECURSIVE InsertWalk(_, _, _, _, _)
InsertWalk(dir, fragments, i, last, node) ==
    IF i <= Len(fragments)
    THEN IF last # NoFragment
         THEN LET entry == IF last \in DOMAIN dir THEN dir[last]
                           ELSE DirNode(EmptyDir)                \* or_insert_with
                  held == Put(dir, last, entry)
              IN IF entry.kind # "dir"
                 THEN [dir |-> held, status |-> "Must be a directory"]
                 ELSE LET below == InsertWalk(entry.contents, fragments,
                                              i + 1, fragments[i], node)
                      IN [dir |-> Put(held, last, DirNode(below.dir)),
                          status |-> below.status]
         ELSE InsertWalk(dir, fragments, i + 1, fragments[i], node)
    ELSE IF last = NoFragment
         THEN [dir |-> dir, status |-> "Cannot insert at root"]
         ELSE IF last \in DOMAIN dir
              THEN [dir |-> dir, status |-> "Cannot insert if already occupied"]
              ELSE [dir |-> Put(dir, last, node), status |-> "ok"]

InsertResult(dir, path, node) == InsertWalk(dir, path, 1, NoFragment, node)

\* the nodes handed to insert: pages, an empty directory, a directory with a page
InsertableNodes ==
    {PageNode(p) : p \in Pages}
        \cup {DirNode(EmptyDir), DirNode(Put(EmptyDir, "a", PageNode("P1")))}

TreeIdle ==
    /\ root = EmptyDir
    /\ prev = EmptyDir
    /\ op = [name |-> "new", path |-> <<>>, node |-> NotFound, status |-> "ok"]
    /\ inserted = {}
    /\ panicked = FALSE
    /\ nops = 0

\* site.root.insert(path, node); a panic is recorded in op.status
Insert(path, node) ==
    /\ nops < MaxOps
    /\ LET r == InsertResult(root, path, node)
       IN /\ root' = r.dir
          /\ op' = [name |-> "insert", path |-> path, node |-> node,
                    status |-> r.status]
          /\ inserted' = IF r.status = "ok"
                         THEN inserted \cup {<<path, node>>}
                         ELSE inserted
          /\ panicked' = (panicked \/ r.status # "ok")
    /\ prev' = root
    /\ nops' = nops + 1

\* site.root.get(path); the node found (or NotFound) is recorded in op.node
Lookup(path) ==
    /\ nops < MaxOps
    /\ op' = [name |-> "get", path |-> path, node |-> Get(root, path),
              status |-> "ok"]
    /\ prev' = root
    /\ nops' = nops + 1
    /\ UNCHANGED <<root, inserted, panicked>>

(***************************************************************************)
(* Traversal: IntoIterator for &Directory and Pages.                       *)
(* curr_iter is the directory being read and the keys not read yet; a      *)
(* HashMap hands out its entries in an order of its own, so any of them    *)
(* may be the next.                                                        *)
(***************************************************************************)
\* Option::None of Pages::next
NoItem == <<>>

\* <&Directory as IntoIterator>::into_iter
IntoIterator(dir) ==
    [curr_loc |-> <<>>, curr_dir |-> dir, curr_iter |-> DOMAIN dir,
     directories |-> <<>>]

\* Pages::next with the directories met left out instead of pushed
RECURSIVE PagesNextDropsDirectories(_)
PagesNextDropsDirectories(it) ==
    IF it.curr_iter # {}
    THEN UNION {LET loc == Append(it.curr_loc, suffix)
                    node == it.curr_dir[suffix]
                    rest == [it EXCEPT !.curr_iter = @ \ {suffix}]
                IN IF node.kind = "page"
                   THEN {[it |-> rest, item |-> <<loc, node.page>>]}
                   ELSE PagesNextDropsDirectories(rest)
                : suffix \in it.curr_iter}
    ELSE {[it |-> it, item |-> NoItem]}

\* Pages::next: the loop, from the iterator it; each outcome is the iterator
\* the call leaves and the item it returns
RECURSIVE PagesNextLoop(_)
PagesNextLoop(it) ==
    IF it.curr_iter # {}
    THEN UNION {LET loc == Append(it.curr_loc, suffix)
                    node == it.curr_dir[suffix]
                    rest == [it EXCEPT !.curr_iter = @ \ {suffix}]
                IN IF node.kind = "page"
                   THEN {[it |-> rest, item |-> <<loc, node.page>>]}
                   ELSE PagesNextLoop(
                            [rest EXCEPT !.directories =
                                Append(@, [loc |-> loc, dir |-> node.contents])])
                : suffix \in it.curr_iter}
    ELSE IF it.directories = <<>>                      \* directories.pop()?
         THEN {[it |-> it, item |-> NoItem]}
         ELSE LET top == it.directories[Len(it.directories)]
              IN PagesNextLoop(
                     [curr_loc |-> top.loc, curr_dir |-> top.dir,
                      curr_iter |-> DOMAIN top.dir,
                      directories |-> SubSeq(it.directories, 1,
                                             Len(it.directories) - 1)])

IterIdle ==
    /\ iter = IntoIterator(EmptyDir)
    /\ yielded = <<>>
    /\ iterating = "no"

\* (&site.root).into_iter()
IntoIter ==
    /\ iterating = "no"
    /\ iter' = IntoIterator(root)
    /\ iterating' = "yes"
    /\ UNCHANGED yielded

\* pages.next(): Some(item) is kept in yielded, None ends the iteration
PagesNext ==
    /\ iterating = "yes"
    /\ \E outcome \in PagesNextLoop(iter) :
           /\ iter' = outcome.it
           /\ IF outcome.item = NoItem
              THEN iterating' = "done" /\ UNCHANGED yielded
              ELSE yielded' = Append(yielded, outcome.item) /\ UNCHANGED iterating

(***************************************************************************)
(* Generator: gen, copy_assets, gen_pages.                                 *)
(* Paths of files are kept relative to output_dir (or to assets_dir), as   *)
(* the sequence of their segments. Every std::fs call may fail.            *)
(***************************************************************************)
\* the directories a Generator may be given as assets_dir and output_dir
AssetsDirs == {"assets", "out"}
OutputDir == "out"

\* what assets_dir holds: files and directories by name
AssetFile == [kind |-> "file", contents |-> EmptyDir]
AssetDir(contents) == [kind |-> "dir", contents |-> contents]
AssetTrees ==
    {EmptyDir,
     Put(Put(EmptyDir, "s", AssetFile),
         "d", AssetDir(Put(EmptyDir, "t", AssetFile)))}

\* fs::read_dir(assets_dir.join(dir)): the entries of that directory
RECURSIVE ReadDir(_, _)
ReadDir(tree, dir) ==
    IF dir = <<>> THEN tree ELSE ReadDir(tree[dir[1]].contents, Tail(dir))

\* one std::fs call of copy_assets or gen_pages and whether it succeeded
IoCall(by, name, path, ok) == [by |-> by, op |-> name, path |-> path, ok |-> ok]

\* InternalPath::to_fs_path: one path segment for each fragment
ToFsPath(loc) == loc

\* RenderPage with the root as the location, whatever the page
RenderPageAtRoot(page, loc) == [page |-> page, location |-> <<>>]

\* RenderPage { page, location: &loc, site: &self.site }
RenderPage(page, loc) == [page |-> page, location |-> loc]

GenIdle ==
    /\ gen = [pc |-> "idle", assets_dir |-> OutputDir, output_dir |-> OutputDir,
              assets |-> EmptyDir, dirs |-> <<>>, cur |-> <<>>, left |-> {}]
    /\ files = {}
    /\ log = <<>>

\* Generator::gen with copy_assets called whatever the two directories are
GenFirstStepAlwaysCopies(assetsDir, outputDir) == "assets"

\* Generator::gen: copy_assets unless assets_dir is output_dir, then gen_pages
GenFirstStep(assetsDir, outputDir) ==
    IF assetsDir # outputDir THEN "assets" ELSE "pages"

\* the for loop of gen_pages takes the iterator of the root
StartPages(starts) ==
    IF starts
    THEN iter' = IntoIterator(root) /\ iterating' = "yes"
    ELSE UNCHANGED <<iter, iterating>>

\* generator.gen() is called on a site whose construction did not panic
Gen ==
    /\ gen.pc = "idle" /\ ~panicked
    /\ \E assetsDir \in AssetsDirs, tree \in AssetTrees :
           LET pc == GenFirstStep(assetsDir, OutputDir)
           IN /\ gen' = [pc |-> pc, assets_dir |-> assetsDir,
                         output_dir |-> OutputDir, assets |-> tree,
                         dirs |-> IF pc = "assets" THEN <<<<>>>> ELSE <<>>,
                         cur |-> <<>>, left |-> {}]
              /\ StartPages(pc = "pages")
    /\ UNCHANGED <<files, log, yielded>>

\* copy_assets, the head of the while loop: a directory is popped, created
\* under output_dir and opened; with none left copy_assets returns Ok and
\* gen_pages begins
CopyAssetsDir ==
    /\ gen.pc = "assets" /\ gen.left = {}
    /\ IF gen.dirs = <<>>
       THEN /\ gen' = [gen EXCEPT !.pc = "pages"]
            /\ StartPages(TRUE)
            /\ UNCHANGED <<files, log, yielded>>
       ELSE LET dir == gen.dirs[Len(gen.dirs)]
                popped == SubSeq(gen.dirs, 1, Len(gen.dirs) - 1)
            IN \E failed \in {"none", "create_dir_all", "read_dir"} :
                  /\ log' = log
                       \o <<IoCall("copy_assets", "create_dir_all", dir,
                                   failed # "create_dir_all")>>
                       \o (IF failed = "create_dir_all" THEN <<>>
                           ELSE <<IoCall("copy_assets", "read_dir", dir,
                                         failed # "read_dir")>>)
                  /\ gen' = IF failed = "none"
                            THEN [gen EXCEPT !.dirs = popped, !.cur = dir,
                                             !.left = DOMAIN ReadDir(gen.assets, dir)]
                            ELSE [gen EXCEPT !.pc = "err", !.dirs = popped]
                  /\ UNCHANGED <<files, iterVars>>

\* copy_assets, the body of the for loop: one entry of the open directory; a
\* directory is pushed, a file is copied
CopyAssetsEntry ==
    /\ gen.pc = "assets" /\ gen.left # {}
    /\ \E name \in gen.left, failed \in {"none", "entry", "file_type", "copy"} :
           LET path == Append(gen.cur, name)
               isDir == ReadDir(gen.assets, gen.cur)[name].kind = "dir"
               copied == failed \in {"none", "copy"} /\ ~isDir
           IN /\ isDir => failed # "copy"
              /\ log' = log
                   \o <<IoCall("copy_assets", "entry", path, failed # "entry")>>
                   \o (IF failed = "entry" THEN <<>>
                       ELSE <<IoCall("copy_assets", "file_type", path,
                                     failed # "file_type")>>)
                   \o (IF copied
                       THEN <<IoCall("copy_assets", "copy", path, failed # "copy")>>
                       ELSE <<>>)
              /\ gen' = IF failed # "none" THEN [gen EXCEPT !.pc = "err"]
                        ELSE [gen EXCEPT !.left = @ \ {name},
                                         !.dirs = IF isDir THEN Append(@, path)
                                                  ELSE @]
              /\ files' = IF failed = "none" /\ ~isDir
                          THEN files \cup {[path |-> path, kind |-> "asset",
                                            content |-> "asset",
                                            complete |-> TRUE]}
                          ELSE files
              /\ UNCHANGED iterVars

\* the calls of one iteration of gen_pages that can fail. The bytes of
\* write!(BufWriter::new(file), ..) reach the file while write! runs, when
\* the buffer fills up ("write"), and when the BufWriter, a temporary of the
\* statement, is dropped ("drop")
PageCallFailures == {"create_dir_all", "create", "write", "drop"}

\* whether the failure is returned with ?. BufWriter's drop ignores the
\* error of its flush, so res is Ok then
Aborts(failed) == failed \in {"create_dir_all", "create", "write"}

\* gen_pages, one iteration of the for loop: the next page of the traversal,
\* its directory, its file, its rendering; after the last page gen returns Ok
GenPage ==
    /\ gen.pc = "pages"
    /\ \E outcome \in PagesNextLoop(iter) :
           /\ iter' = outcome.it
           /\ IF outcome.item = NoItem
              THEN /\ gen' = [gen EXCEPT !.pc = "ok"]
                   /\ iterating' = "done"
                   /\ UNCHANGED <<files, log, yielded>>
              ELSE \E failed \in {"none"} \cup PageCallFailures :
                      LET loc == outcome.item[1]
                          page == outcome.item[2]
                          path == ToFsPath(loc)
                          parent == SubSeq(path, 1, Len(path) - 1)
                          created == failed \notin {"create_dir_all", "create"}
                      IN /\ log' = log
                              \o <<IoCall("gen_pages", "create_dir_all", parent,
                                          failed # "create_dir_all")>>
                              \o (IF failed = "create_dir_all" THEN <<>>
                                  ELSE <<IoCall("gen_pages", "create", path,
                                                failed # "create")>>)
                              \o (IF created
                                  THEN <<IoCall("gen_pages", "write", path,
                                                failed = "none")>>
                                  ELSE <<>>)
                         /\ files' = IF created
                                     THEN files \cup
                                          {[path |-> path, kind |-> "page",
                                            content |-> RenderPage(page, loc),
                                            complete |-> failed = "none"]}
                                     ELSE files
                         /\ gen' = IF Aborts(failed)
                                   THEN [gen EXCEPT !.pc = "err"]
                                   ELSE gen
                         /\ yielded' = Append(yielded, outcome.item)
                         /\ UNCHANGED iterating

(***************************************************************************)
(* Rendering text: html_escape and <str as Render>::to_html.               *)
(* A str is a sequence of chars; a char is a one-character string, and     *)
(* Utf8Len gives the bytes it takes, since to_html slices by byte index.   *)
(***************************************************************************)
Chars == {"&", "<", ">", "\"", "'", "\\", "l", "t", ";", "e'"}

\* char::len_utf8: "e'" stands for an accented letter of two bytes
Utf8Len(ch) == IF ch = "e'" THEN 2 ELSE 1

RECURSIVE StrsUpTo(_)
StrsUpTo(n) ==
    IF n = 0 THEN {<<>>}
    ELSE LET shorter == StrsUpTo(n - 1)
         IN shorter \cup {Append(s, ch) : s \in shorter, ch \in Chars}

Strs == StrsUpTo(MaxStrLen)

\* html_escape returning None
NoEscape == <<>>

\* html_escape without the arm of the backslash
HtmlEscapeNoBackslash(ch) ==
    CASE ch = "&" -> <<"&", "a", "m", "p", ";">>
      [] ch = "<" -> <<"&", "l", "t", ";">>
      [] ch = ">" -> <<"&", "g", "t", ";">>
      [] ch = "\"" -> <<"&", "q", "u", "o", "t", ";">>
      [] ch = "'" -> <<"&", "#", "3", "9", ";">>
      [] OTHER -> NoEscape

\* html_escape
HtmlEscape(ch) ==
    CASE ch = "&" -> <<"&", "a", "m", "p", ";">>
      [] ch = "<" -> <<"&", "l", "t", ";">>
      [] ch = ">" -> <<"&", "g", "t", ";">>
      [] ch = "\"" -> <<"&", "q", "u", "o", "t", ";">>
      [] ch = "'" -> <<"&", "#", "3", "9", ";">>
      [] ch = "\\" -> <<"&", "#", "9", "2", ";">>
      [] OTHER -> NoEscape

\* the byte index of every char of s, and of the end of s, in order
RECURSIVE ByteIndices(_, _, _)
ByteIndices(s, k, byte) ==
    IF k > Len(s) THEN <<byte>>
    ELSE <<byte>> \o ByteIndices(s, k + 1, byte + Utf8Len(s[k]))

\* str::char_indices followed by the filter_map of to_html: the (byte index,
\* escape) pairs of the chars of s that html_escape maps, from the k-th on
RECURSIVE EscapesFrom(_, _, _)
EscapesFrom(s, at, k) ==
    IF k > Len(s) THEN <<>>
    ELSE IF HtmlEscape(s[k]) = NoEscape THEN EscapesFrom(s, at, k + 1)
    ELSE <<[at |-> at[k], escape |-> HtmlEscape(s[k])]>>
             \o EscapesFrom(s, at, k + 1)

\* str::is_char_boundary, at being the byte indices of s
IsCharBoundary(at, byte) == \E k \in DOMAIN at : at[k] = byte

\* &self[from .. to] for byte indices on char boundaries
Slice(s, at, from, to) ==
    LET first == CHOOSE k \in DOMAIN at : at[k] = from
        last == CHOOSE k \in DOMAIN at : at[k] = to
    IN SubSeq(s, first, last - 1)

\* WriteLoop with start = end after an escape, so that the next slice begins
\* at the char that was just escaped
RECURSIVE WriteLoopKeepsEscaped(_, _, _, _, _, _)
WriteLoopKeepsEscaped(s, at, escapes, n, start, written) ==
    IF n <= Len(escapes)
    THEN LET end == escapes[n].at
         IN IF start > end \/ ~IsCharBoundary(at, start) \/ ~IsCharBoundary(at, end)
            THEN [html |-> written, status |-> "panic"]
            ELSE WriteLoopKeepsEscaped(s, at, escapes, n + 1, end,
                           written \o Slice(s, at, start, end) \o escapes[n].escape)
    ELSE LET size == at[Len(at)]
         IN IF start > size \/ ~IsCharBoundary(at, start)
            THEN [html |-> written, status |-> "panic"]
            ELSE [html |-> written \o Slice(s, at, start, size), status |-> "ok"]

\* the for loop of to_html over the escapes from the n-th on, with start and
\* what was written so far, then the final write_str; slicing off a char
\* boundary or backwards panics
RECURSIVE WriteLoop(_, _, _, _, _, _)
WriteLoop(s, at, escapes, n, start, written) ==
    IF n <= Len(escapes)
    THEN LET end == escapes[n].at
         IN IF start > end \/ ~IsCharBoundary(at, start) \/ ~IsCharBoundary(at, end)
            THEN [html |-> written, status |-> "panic"]
            ELSE WriteLoop(s, at, escapes, n + 1, end + 1,
                           written \o Slice(s, at, start, end) \o escapes[n].escape)
    ELSE LET size == at[Len(at)]
         IN IF start > size \/ ~IsCharBoundary(at, start)
            THEN [html |-> written, status |-> "panic"]
            ELSE [html |-> written \o Slice(s, at, start, size), status |-> "ok"]

\* <str as Render>::to_html
ToHtml(s) ==
    LET at == ByteIndices(s, 1, 0)
    IN WriteLoop(s, at, EscapesFrom(s, at, 1), 1, 0, <<>>)

RenderIdle ==
    /\ text = <<>>
    /\ html = <<>>
    /\ rendered = "no"

\* text.to_html(fmt, ctx)
RenderText ==
    /\ rendered = "no"
    /\ \E r \in {ToHtml(text)} :
          /\ html' = r.html
          /\ rendered' = r.status
    /\ UNCHANGED text

(***************************************************************************)
(* Token streams (proc_macro2::TokenStream as syn's ParseStream reads it). *)
(* A stream is the sequence of the token trees not consumed yet.           *)
(***************************************************************************)
Ident(name) == [t |-> "ident", v |-> name, ts |-> <<>>]
LitStr(value) == [t |-> "lit", v |-> value, ts |-> <<>>]
Punct(mark) == [t |-> "punct", v |-> mark, ts |-> <<>>]
Group(delimiter, stream) == [t |-> "group", v |-> delimiter, ts |-> stream]

\* syn::Result: Ok(val) with the stream left behind, or Err(err). unexpected
\* is syn's flag for a delimited group whose content was not parsed to its end
Ok(val, rest, unexpected) ==
    [ok |-> TRUE, val |-> val, rest |-> rest, err |-> "ok",
     unexpected |-> unexpected]
Err(message) ==
    [ok |-> FALSE, val |-> <<>>, rest |-> <<>>, err |-> message,
     unexpected |-> FALSE]

\* input.fork().parse::<Ident>() gives Ok(ident) with ident == name
PeekIdent(ts, name) == ts # <<>> /\ ts[1].t = "ident" /\ ts[1].v = name
\* input.peek(LitStr)
PeekLitStr(ts) == ts # <<>> /\ ts[1].t = "lit"
\* input.peek(Token![mark])
PeekPunct(ts, mark) == ts # <<>> /\ ts[1].t = "punct" /\ ts[1].v = mark
\* input.peek(token::Paren), input.peek(token::Bracket)
PeekGroup(ts, delimiter) == ts # <<>> /\ ts[1].t = "group" /\ ts[1].v = delimiter

\* input.parse::<LitStr>()
ParseLitStr(ts) ==
    IF PeekLitStr(ts) THEN Ok(ts[1].v, Tail(ts), FALSE)
    ELSE Err("expected string literal")

\* input.parse::<Token![mark]>()
ParsePunct(ts, mark) ==
    IF PeekPunct(ts, mark) THEN Ok(mark, Tail(ts), FALSE)
    ELSE Err("expected punctuation")

\* syn's end of a parse (Parser::parse2): an error stands; otherwise tokens
\* left in the stream or in a group are an "unexpected token" error
ParseToEnd(r) ==
    IF ~r.ok THEN r
    ELSE IF r.unexpected \/ r.rest # <<>> THEN Err("unexpected token")
    ELSE r

(***************************************************************************)
(* ast/rust.rs: InlineRust and Inlinable.                                  *)
(***************************************************************************)
Plain(item) == [inlinable |-> "plain", item |-> item]
Inlined(expr) == [inlinable |-> "inlined", item |-> expr]

\* InlineRust::peek
InlineRustPeek(ts) == PeekPunct(ts, "$")

\* InlineRust::parse; the content of the brackets is a Rust expression, here
\* one identifier or literal
InlineRustParse(ts) ==
    IF ~PeekPunct(ts, "$") THEN Err("expected punctuation")
    ELSE IF ~PeekGroup(Tail(ts), "bracket") THEN Err("expected square brackets")
    ELSE LET content == ts[2].ts
         IN IF content = <<>> \/ content[1].t \notin {"ident", "lit"}
            THEN Err("expected expression")
            ELSE Ok(Inlined(content[1].v), Tail(Tail(ts)), Len(content) > 1)

(***************************************************************************)
(* ast/location.rs: InternalLoc, Url, Location.                            *)
(***************************************************************************)
\* InternalLoc::peek, Url::peek, Location::peek
InternalLocPeek(ts) == PeekPunct(ts, "/")
UrlPeek(ts) == PeekPunct(ts, "@")
LocationPeek(ts) == InternalLocPeek(ts) \/ UrlPeek(ts)

\* InternalLoc::parse and Url::parse: the prefix, then the literal
PrefixedLitParse(ts, mark, variant) ==
    LET WithLiteral(literal) ==
            IF ~literal.ok THEN literal
            ELSE Ok([location |-> variant, literal |-> literal.val],
                    literal.rest, FALSE)
        WithPrefix(prefix) ==
            IF ~prefix.ok THEN prefix
            ELSE WithLiteral(ParseLitStr(prefix.rest))
    IN WithPrefix(ParsePunct(ts, mark))

\* Location::parse
LocationParse(ts) ==
    IF InternalLocPeek(ts) THEN PrefixedLitParse(ts, "/", "internal")
    ELSE IF UrlPeek(ts) THEN PrefixedLitParse(ts, "@", "url")
    ELSE Err("Expected / or @")

\* <Inlinable<Location> as Parse>::parse
InlinableLocationParse(ts) ==
    IF InlineRustPeek(ts) THEN InlineRustParse(ts)
    ELSE LET WithLoc(loc) ==
                 IF ~loc.ok THEN loc
                 ELSE Ok(Plain(loc.val), loc.rest, loc.unexpected)
         IN WithLoc(LocationParse(ts))

\* <Inlinable<LitStr> as Parse>::parse
InlinableLitStrParse(ts) ==
    IF InlineRustPeek(ts) THEN InlineRustParse(ts)
    ELSE LET WithLit(lit) ==
                 IF ~lit.ok THEN lit ELSE Ok(Plain(lit.val), lit.rest, FALSE)
         IN WithLit(ParseLitStr(ts))

(***************************************************************************)
(* ast/inline.rs: Component, ComponentTerm, Text, Bold, Italic,            *)
(* Preformatted, Link.                                                     *)
(***************************************************************************)
BoldPrefix == "b"
ItalicPrefix == "i"
PreformattedPrefix == "c"
LinkPrefix == "l"

\* Text::peek, Bold::peek, Italic::peek, Preformatted::peek, Link::peek
TextPeek(ts) == PeekLitStr(ts)
BoldPeek(ts) == PeekIdent(ts, BoldPrefix)
ItalicPeek(ts) == PeekIdent(ts, ItalicPrefix)
PreformattedPeek(ts) == PeekIdent(ts, PreformattedPrefix)
\* Link::peek without the comparison of the identifier with PREFIX
LinkPeekAnyIdent(ts) == ts # <<>> /\ ts[1].t = "ident"
LinkPeek(ts) == PeekIdent(ts, LinkPrefix)

\* ComponentTerm::peek
ComponentTermPeek(ts) ==
    \/ TextPeek(ts)
    \/ LocationPeek(ts)
    \/ BoldPeek(ts)
    \/ ItalicPeek(ts)
    \/ PreformattedPeek(ts)
    \/ LinkPeek(ts)

\* inline::Component::peek
InlineComponentPeek(ts) == ComponentTermPeek(ts) \/ PeekGroup(ts, "paren")

\* Text::parse
TextParse(ts) ==
    LET WithLiteral(literal) ==
            IF ~literal.ok THEN literal
            ELSE Ok([term |-> "text", literal |-> literal.val],
                    literal.rest, FALSE)
    IN WithLiteral(ParseLitStr(ts))

RECURSIVE InlineComponentLoop(_, _, _)
RECURSIVE ComponentTermParse(_)
RECURSIVE FormatParse(_, _, _)
RECURSIVE LinkParse(_)

\* <Inlinable<ComponentTerm> as Parse>::parse
InlinableTermParse(ts) ==
    IF InlineRustPeek(ts) THEN InlineRustParse(ts)
    ELSE LET WithTerm(term) ==
                 IF ~term.ok THEN term
                 ELSE Ok(Plain(term.val), term.rest, term.unexpected)
         IN WithTerm(ComponentTermParse(ts))

\* the loop of inline::Component::parse with a group pushed as one term that
\* holds its terms, instead of its terms being appended
RECURSIVE InlineComponentLoopNests(_, _, _)
InlineComponentLoopNests(ts, terms, unexpected) ==
    IF InlineComponentPeek(ts)
    THEN IF PeekGroup(ts, "paren")
         THEN LET WithChild(child) ==
                      IF ~child.ok THEN child
                      ELSE InlineComponentLoopNests(
                               Tail(ts),
                               Append(terms, Plain([term |-> "group",
                                                   target |-> child.val])),
                               unexpected \/ child.unexpected
                                   \/ child.rest # <<>>)
              IN WithChild(InlineComponentLoopNests(ts[1].ts, <<>>, FALSE))
         ELSE LET WithTerm(term) ==
                      IF ~term.ok THEN term
                      ELSE InlineComponentLoopNests(
                               term.rest, Append(terms, term.val),
                               unexpected \/ term.unexpected)
              IN WithTerm(InlinableTermParse(ts))
    ELSE Ok(terms, ts, unexpected)

\* the loop of inline::Component::parse, with this.terms so far; a group's
\* content is parsed as a Component and its terms appended
InlineComponentLoop(ts, terms, unexpected) ==
    IF InlineComponentPeek(ts)
    THEN IF PeekGroup(ts, "paren")
         THEN LET WithChild(child) ==
                      IF ~child.ok THEN child
                      ELSE InlineComponentLoop(
                               Tail(ts), terms \o child.val,
                               unexpected \/ child.unexpected
                                   \/ child.rest # <<>>)
              IN WithChild(InlineComponentLoop(ts[1].ts, <<>>, FALSE))
         ELSE LET WithTerm(term) ==
                      IF ~term.ok THEN term
                      ELSE InlineComponentLoop(term.rest, Append(terms, term.val),
                                               unexpected \/ term.unexpected)
              IN WithTerm(InlinableTermParse(ts))
    ELSE Ok(terms, ts, unexpected)

\* inline::Component::parse
InlineComponentParse(ts) == InlineComponentLoop(ts, <<>>, FALSE)

\* ComponentTerm::parse
ComponentTermParse(ts) ==
    IF TextPeek(ts) THEN TextParse(ts)
    ELSE IF LocationPeek(ts)
         THEN LET WithLoc(loc) ==
                      IF ~loc.ok THEN loc
                      ELSE Ok([term |-> "location", location |-> loc.val],
                              loc.rest, loc.unexpected)
              IN WithLoc(LocationParse(ts))
    ELSE IF BoldPeek(ts) THEN FormatParse(ts, BoldPrefix, "bold")
    ELSE IF ItalicPeek(ts) THEN FormatParse(ts, ItalicPrefix, "italic")
    ELSE IF PreformattedPeek(ts)
         THEN FormatParse(ts, PreformattedPrefix, "preformatted")
    ELSE IF LinkPeek(ts) THEN LinkParse(ts)
    ELSE Err("Expected string literal, #, /, @, b, i, c or l")

\* Bold::parse and its like with the keyword of a formatted payload dropped:
\* the outer term takes the payload of the inner one
FormatParseDropsInner(ts, prefix, variant) ==
    IF ts = <<>> \/ ts[1].t # "ident" THEN Err("expected identifier")
    ELSE IF ts[1].v # prefix THEN Err("Expected prefix")
    ELSE LET Payload(terms) ==
                 IF /\ Len(terms) = 1
                    /\ terms[1].inlinable = "plain"
                    /\ terms[1].item.term \in {"bold", "italic", "preformatted"}
                 THEN terms[1].item.target
                 ELSE terms
             WithTarget(target) ==
                 IF ~target.ok THEN target
                 ELSE Ok([term |-> variant, target |-> Payload(target.val)],
                         target.rest, target.unexpected)
         IN WithTarget(InlineComponentParse(Tail(ts)))

\* Bold::parse, Italic::parse, Preformatted::parse: the prefix, then the target
FormatParse(ts, prefix, variant) ==
    IF ts = <<>> \/ ts[1].t # "ident" THEN Err("expected identifier")
    ELSE IF ts[1].v # prefix THEN Err("Expected prefix")
    ELSE LET WithTarget(target) ==
                 IF ~target.ok THEN target
                 ELSE Ok([term |-> variant, target |-> target.val],
                         target.rest, target.unexpected)
         IN WithTarget(InlineComponentParse(Tail(ts)))

\* Link::parse: the prefix, the target, then the location
LinkParse(ts) ==
    IF ts = <<>> \/ ts[1].t # "ident" THEN Err("expected identifier")
    ELSE IF ts[1].v # LinkPrefix THEN Err("Expected prefix")
    ELSE LET WithLocation(target, location) ==
                 IF ~location.ok THEN location
                 ELSE Ok([term |-> "link", target |-> target.val,
                          location |-> location.val],
                         location.rest,
                         target.unexpected \/ location.unexpected)
             WithTarget(target) ==
                 IF ~target.ok THEN target
                 ELSE WithLocation(target, InlinableLocationParse(target.rest))
         IN WithTarget(InlineComponentParse(Tail(ts)))

(***************************************************************************)
(* ast/blocking.rs: Component, Paragraph, Image.                           *)
(***************************************************************************)
ParagraphPrefix == "p"
ImagePrefix == "img"

\* Paragraph::peek, Image::peek, blocking::Component::peek
ParagraphPeek(ts) == PeekIdent(ts, ParagraphPrefix)
ImagePeek(ts) == PeekIdent(ts, ImagePrefix)
BlockingComponentPeek(ts) == ParagraphPeek(ts) \/ ImagePeek(ts)

\* Paragraph::parse
ParagraphParse(ts) ==
    IF ts = <<>> \/ ts[1].t # "ident" THEN Err("expected identifier")
    ELSE IF ts[1].v # ParagraphPrefix THEN Err("Expected prefix")
    ELSE LET WithContent(content) ==
                 IF ~content.ok THEN content
                 ELSE Ok([block |-> "paragraph", alt |-> Plain("none"),
                          content |-> content.val],
                         content.rest, content.unexpected)
         IN WithContent(InlineComponentParse(Tail(ts)))

\* Image::parse
ImageParse(ts) ==
    IF ts = <<>> \/ ts[1].t # "ident" THEN Err("expected identifier")
    ELSE IF ts[1].v # ImagePrefix THEN Err("Expected prefix")
    ELSE LET WithLink(alt, link) ==
                 IF ~link.ok THEN link
                 ELSE Ok([block |-> "image", alt |-> alt.val,
                          content |-> link.val],
                         link.rest, alt.unexpected \/ link.unexpected)
             WithAlt(alt) ==
                 IF ~alt.ok THEN alt
                 ELSE WithLink(alt, InlineComponentParse(alt.rest))
         IN WithAlt(InlinableLitStrParse(Tail(ts)))

\* blocking::Component::parse
BlockingComponentParse(ts) ==
    IF ParagraphPeek(ts) THEN ParagraphParse(ts)
    ELSE IF ImagePeek(ts) THEN ImageParse(ts)
    ELSE Err("Expected p or img")

(***************************************************************************)
(* ast/page.rs: Field, Body, Children, Page, Section.                      *)
(***************************************************************************)
IdFieldName == "id"
TitleFieldName == "title"
BodyFieldName == "body"
ChildrenFieldName == "children"

\* an Option<Field<_>> that is None
NoField == [name |-> "none", value |-> <<>>]

\* input.parse_terminated(BlockingComp::parse) with the values so far: values
\* separated by ; until the stream is empty
RECURSIVE TerminatedLoop(_, _, _)
TerminatedLoop(ts, terms, unexpected) ==
    IF ts = <<>> THEN Ok(terms, ts, unexpected)
    ELSE LET WithPunct(value, punct) ==
                 IF ~punct.ok THEN punct
                 ELSE TerminatedLoop(punct.rest, Append(terms, value.val),
                                     unexpected \/ value.unexpected)
             WithValue(value) ==
                 IF ~value.ok THEN value
                 ELSE IF value.rest = <<>>
                      THEN Ok(Append(terms, value.val), value.rest,
                              unexpected \/ value.unexpected)
                      ELSE WithPunct(value, ParsePunct(value.rest, ";"))
         IN WithValue(BlockingComponentParse(ts))

\* Body::parse
BodyParse(ts) ==
    IF PeekPunct(ts, ";") THEN Ok(<<>>, ts, FALSE)
    ELSE TerminatedLoop(ts, <<>>, FALSE)

RECURSIVE FieldParse(_, _, _)
RECURSIVE ChildrenLoop(_, _, _)
RECURSIVE SectionLoop(_, _, _, _, _, _)

\* <T::Value as Parse>::parse for the Value of each FieldType
FieldValueParse(ts, valueType) ==
    CASE valueType = "LitStr" -> ParseLitStr(ts)
      [] valueType = "InlineComp" -> InlineComponentParse(ts)
      [] valueType = "Body" -> BodyParse(ts)
      [] valueType = "Children" -> ChildrenLoop(ts, <<>>, FALSE)

\* Field::<T>::parse: the name, the colon, then the value
FieldParse(ts, name, valueType) ==
    IF ts = <<>> \/ ts[1].t # "ident" THEN Err("expected identifier")
    ELSE IF ts[1].v # name THEN Err("Expected field name")
    ELSE LET WithValue(value) ==
                 IF ~value.ok THEN value
                 ELSE Ok([name |-> name, value |-> value.val],
                         value.rest, value.unexpected)
             WithColon(colon) ==
                 IF ~colon.ok THEN colon
                 ELSE WithValue(FieldValueParse(colon.rest, valueType))
         IN WithColon(ParsePunct(Tail(ts), ":"))

\* Children::peek
ChildrenPeek(ts) == PeekGroup(ts, "bracket")

\* the panic of Punctuated::push_punct on a sequence that is empty or ends in
\* punctuation; it unwinds through the parsers as an error does, but is not a
\* syn::Error
PushPunctPanic == "panic: Punctuated::push_punct"

\* the loop of Children::parse with the sections so far. Each iteration takes
\* the bracket group, then calls push_punct before push_value: sections ends
\* in a value only after an iteration, so the first push_punct finds it empty
ChildrenLoop(ts, sections, unexpected) ==
    IF ChildrenPeek(ts)
    THEN IF sections = <<>> THEN Err(PushPunctPanic)
         ELSE LET WithSection(section) ==
                      IF ~section.ok THEN section
                      ELSE ChildrenLoop(Tail(ts), Append(sections, section.val),
                                        unexpected \/ section.unexpected
                                            \/ section.rest # <<>>)
              IN WithSection(SectionLoop(ts[1].ts, NoField, NoField, NoField,
                                         NoField, FALSE))
    ELSE Ok(sections, ts, unexpected)

\* the loop of Section::parse with the fields so far, then the required fields
SectionLoop(ts, id, title, body, children, unexpected) ==
    IF ts # <<>>
    THEN IF ts[1].t # "ident" THEN Err("expected identifier")
         ELSE LET key == ts[1].v
                  rest == Tail(ts)
              IN IF key = IdFieldName
                 THEN IF id # NoField THEN Err("section id already declared")
                      ELSE LET WithField(f) ==
                               IF ~f.ok THEN f
                               ELSE SectionLoop(f.rest, f.val, title, body, children,
                                                unexpected \/ f.unexpected)
                           IN WithField(FieldParse(rest, IdFieldName, "LitStr"))
                 ELSE IF key = TitleFieldName
                 THEN IF title # NoField
                      THEN Err("section title already declared")
                      ELSE LET WithField(f) ==
                               IF ~f.ok THEN f
                               ELSE SectionLoop(f.rest, id, f.val, body, children,
                                                unexpected \/ f.unexpected)
                           IN WithField(FieldParse(rest, TitleFieldName, "InlineComp"))
                 ELSE IF key = BodyFieldName
                 THEN IF body # NoField
                      THEN Err("section body already declared")
                      ELSE LET WithField(f) ==
                               IF ~f.ok THEN f
                               ELSE SectionLoop(f.rest, id, title, f.val, children,
                                                unexpected \/ f.unexpected)
                           IN WithField(FieldParse(rest, BodyFieldName, "Body"))
                 ELSE IF key = ChildrenFieldName
                 THEN IF children # NoField
                      THEN Err("section children already declared")
                      ELSE LET WithField(f) ==
                               IF ~f.ok THEN f
                               ELSE SectionLoop(f.rest, id, title, body, f.val,
                                                unexpected \/ f.unexpected)
                           IN WithField(FieldParse(rest, ChildrenFieldName, "Children"))
                 ELSE SectionLoop(rest, id, title, body, children, unexpected)
    ELSE IF id = NoField THEN Err("missing section id")
    ELSE IF title = NoField THEN Err("missing section title")
    ELSE IF body = NoField THEN Err("missing section body")
    ELSE Ok([id |-> id, title |-> title, body |-> body, children |-> children],
            ts, unexpected)

\* Section::parse
SectionParse(ts) == SectionLoop(ts, NoField, NoField, NoField, NoField, FALSE)

\* the loop of Page::parse with the fields so far, then the required fields
RECURSIVE PageLoop(_, _, _, _, _)
PageLoop(ts, title, body, children, unexpected) ==
    IF ts # <<>>
    THEN IF ts[1].t # "ident" THEN Err("expected identifier")
         ELSE LET key == ts[1].v
                  rest == Tail(ts)
              IN IF key = TitleFieldName
                 THEN IF title # NoField THEN Err("page title already declared")
                      ELSE LET WithField(f) ==
                               IF ~f.ok THEN f
                               ELSE PageLoop(f.rest, f.val, body, children,
                                             unexpected \/ f.unexpected)
                           IN WithField(FieldParse(rest, TitleFieldName, "LitStr"))
                 ELSE IF key = BodyFieldName
                 THEN IF body # NoField THEN Err("page body already declared")
                      ELSE LET WithField(f) ==
                               IF ~f.ok THEN f
                               ELSE PageLoop(f.rest, title, f.val, children,
                                             unexpected \/ f.unexpected)
                           IN WithField(FieldParse(rest, BodyFieldName, "Body"))
                 ELSE IF key = ChildrenFieldName
                 THEN IF children # NoField
                      THEN Err("page children already declared")
                      ELSE LET WithField(f) ==
                               IF ~f.ok THEN f
                               ELSE PageLoop(f.rest, title, body, f.val,
                                             unexpected \/ f.unexpected)
                           IN WithField(FieldParse(rest, ChildrenFieldName, "Children"))
                 ELSE PageLoop(rest, title, body, children, unexpected)
    ELSE IF title = NoField THEN Err("missing page title")
    ELSE IF body = NoField THEN Err("missing page body")
    ELSE Ok([id |-> NoField, title |-> title, body |-> body,
             children |-> children],
            ts, unexpected)

\* Page::parse
PageParse(ts) == PageLoop(ts, NoField, NoField, NoField, FALSE)

(***************************************************************************)
(* The token streams parsed.                                               *)
(***************************************************************************)
\* a field declaration as written: name : value (plain), name name : value
\* (doubled) or the name alone (bare)
FieldTokens(d) ==
    CASE d.form = "plain" -> <<Ident(d.name), Punct(":")>> \o d.value
      [] d.form = "doubled" -> <<Ident(d.name), Ident(d.name), Punct(":")>> \o d.value
      [] d.form = "bare" -> <<Ident(d.name)>>

\* the token stream of a record: its declarations one after the other
RECURSIVE RecordTokens(_)
RecordTokens(ds) ==
    IF ds = <<>> THEN <<>> ELSE FieldTokens(Head(ds)) \o RecordTokens(Tail(ds))

BodyValues ==
    {<<Ident("p"), LitStr("x")>>,
     <<Ident("p"), LitStr("y"), Punct(";"), Ident("img"), LitStr("x")>>}

\* a nested section, its fields written in the given form
SectionTokens(form) ==
    RecordTokens(<<[name |-> "id", form |-> form, value |-> <<LitStr("s")>>],
                   [name |-> "title", form |-> form, value |-> <<LitStr("S")>>],
                   [name |-> "body", form |-> form,
                    value |-> <<Ident("p"), LitStr("x")>>]>>)

Declarations ==
    {[name |-> "title", form |-> f, value |-> <<LitStr(v)>>] :
        f \in {"plain", "doubled"}, v \in {"T", "U"}}
    \cup {[name |-> "body", form |-> f, value |-> v] :
            f \in {"plain", "doubled"}, v \in BodyValues}
    \cup {[name |-> "children", form |-> f,
           value |-> <<Group("bracket", SectionTokens(f))>>] :
            f \in {"plain", "doubled"}}
    \cup {[name |-> "children", form |-> f, value |-> <<>>] :
            f \in {"plain", "doubled"}}
    \cup {[name |-> "id", form |-> f, value |-> <<LitStr("s")>>] :
            f \in {"plain", "doubled"}}
    \cup {[name |-> "foo", form |-> "bare", value |-> <<>>]}

RECURSIVE DeclarationsUpTo(_)
DeclarationsUpTo(n) ==
    IF n = 0 THEN {<<>>}
    ELSE LET shorter == DeclarationsUpTo(n - 1)
         IN shorter \cup {Append(ds, d) : ds \in shorter, d \in Declarations}

\* the units inline streams are made of: texts, locations, prefixes, a slot
InlineUnits ==
    {<<LitStr("x")>>, <<LitStr("y")>>,
     <<Punct("/"), LitStr("x")>>, <<Punct("@"), LitStr("y")>>,
     <<Ident(BoldPrefix)>>, <<Ident(ItalicPrefix)>>,
     <<Ident(PreformattedPrefix)>>, <<Ident(LinkPrefix)>>,
     <<Punct("$"), Group("bracket", <<Ident("e")>>)>>}

\* the units of a stream, a pair of parentheses being one more unit
RECURSIVE Units(_)
Units(ts) ==
    IF ts = <<>> THEN 0
    ELSE IF ts[1].t = "group" /\ ts[1].v = "paren"
         THEN 1 + Units(ts[1].ts) + Units(Tail(ts))
         ELSE IF ts[1].t = "punct" THEN Units(Tail(ts))
         ELSE 1 + Units(Tail(ts))

ParseIdle ==
    /\ kind = "none"
    /\ decls = <<>>
    /\ input = <<>>
    /\ result = Err("not parsed")
    /\ parsed = FALSE

\* syn::parse2::<Page>(input)
ParsePage ==
    /\ kind = "page" /\ ~parsed
    /\ result' = ParseToEnd(PageParse(input))
    /\ parsed' = TRUE
    /\ UNCHANGED <<kind, decls, input>>

\* syn::parse2::<Section>(input)
ParseSection ==
    /\ kind = "section" /\ ~parsed
    /\ result' = ParseToEnd(SectionParse(input))
    /\ parsed' = TRUE
    /\ UNCHANGED <<kind, decls, input>>

\* syn::parse2::<inline::Component>(input)
ParseInline ==
    /\ kind = "inline" /\ ~parsed
    /\ result' = ParseToEnd(InlineComponentParse(input))
    /\ parsed' = TRUE
    /\ UNCHANGED <<kind, decls, input>>

InitPage ==
    /\ TreeIdle
    /\ RenderIdle
    /\ IterIdle
    /\ GenIdle
    /\ kind \in {"page", "section"}
    /\ decls \in DeclarationsUpTo(MaxFields)
    /\ input = RecordTokens(decls)
    /\ result = Err("not parsed")
    /\ parsed = FALSE

NextPage ==
    /\ ParsePage \/ ParseSection
    /\ UNCHANGED <<treeVars, renderVars, iterVars, genVars>>

SpecPage == InitPage /\ [][NextPage]_vars

\* the markup gets one more unit at its end
WriteUnit(u) ==
    /\ kind = "inline" /\ ~parsed
    /\ Units(input) < MaxUnits
    /\ input' = input \o u
    /\ UNCHANGED <<kind, decls, result, parsed>>

\* the last n tokens of the markup get a pair of parentheses around them
WriteParens(n) ==
    /\ kind = "inline" /\ ~parsed
    /\ Units(input) < MaxUnits
    /\ n <= Len(input)
    /\ n < Len(input) => input[Len(input) - n].t # "punct"
    /\ input' = SubSeq(input, 1, Len(input) - n)
                    \o <<Group("paren", SubSeq(input, Len(input) - n + 1,
                                               Len(input)))>>
    /\ UNCHANGED <<kind, decls, result, parsed>>

InitInline ==
    /\ TreeIdle
    /\ RenderIdle
    /\ IterIdle
    /\ GenIdle
    /\ kind = "inline"
    /\ decls = <<>>
    /\ input = <<>>
    /\ result = Err("not parsed")
    /\ parsed = FALSE

NextInline ==
    /\ \/ \E u \in InlineUnits : WriteUnit(u)
       \/ \E n \in 0 .. 2 * MaxUnits : WriteParens(n)
       \/ ParseInline
    /\ UNCHANGED <<treeVars, renderVars, iterVars, genVars>>

SpecInline == InitInline /\ [][NextInline]_vars

InitTree == TreeIdle /\ RenderIdle /\ ParseIdle /\ IterIdle /\ GenIdle

NextTree ==
    /\ \/ \E path \in Paths, node \in InsertableNodes : Insert(path, node)
       \/ \E path \in Paths : Lookup(path)
    /\ UNCHANGED <<renderVars, parseVars, iterVars, genVars>>

SpecTree == InitTree /\ [][NextTree]_vars

\* a site is built by inserts, then the pages of its root are iterated
InitPages == InitTree

NextPages ==
    \/ /\ iterating = "no"
       /\ \E path \in Paths, node \in InsertableNodes : Insert(path, node)
       /\ UNCHANGED <<renderVars, parseVars, iterVars, genVars>>
    \/ IntoIter /\ UNCHANGED <<treeVars, renderVars, parseVars, genVars>>
    \/ PagesNext /\ UNCHANGED <<treeVars, renderVars, parseVars, genVars>>

SpecPages == InitPages /\ [][NextPages]_vars

\* the paths at which the pages of a generated site are inserted
SitePaths == {<<"a">>, <<"b">>, <<"a", "a">>, <<"a", "b">>}

\* site.root.insert(path, Node::Page(page)) before the generator runs
BuildSite ==
    /\ gen.pc = "idle"
    /\ \E path \in SitePaths, page \in Pages : Insert(path, PageNode(page))

\* a site is built by inserts, then Generator::gen runs on it
InitGen == InitTree

NextGen ==
    \/ BuildSite /\ UNCHANGED <<renderVars, parseVars, iterVars, genVars>>
    \/ Gen /\ UNCHANGED <<treeVars, renderVars, parseVars>>
    \/ CopyAssetsDir /\ UNCHANGED <<treeVars, renderVars, parseVars>>
    \/ CopyAssetsEntry /\ UNCHANGED <<treeVars, renderVars, parseVars>>
    \/ GenPage /\ UNCHANGED <<treeVars, renderVars, parseVars>>

SpecGen == InitGen /\ [][NextGen]_vars

InitRender ==
    /\ TreeIdle
    /\ ParseIdle
    /\ IterIdle
    /\ GenIdle
    /\ text \in Strs
    /\ html = <<>>
    /\ rendered = "no"

NextRender ==
    RenderText /\ UNCHANGED <<treeVars, parseVars, iterVars, genVars>>

SpecRender == InitRender /\ [][NextRender]_vars

(***************************************************************************)
(* Claims about the document tree, checked under SpecTree.                 *)
(***************************************************************************)
\* the paths get is asked about: one segment longer than the inserted paths,
\* since an inserted Directory node brings its own contents
QueryPaths == PathsUpTo(MaxDepth + 1)

IsPrefix(p, q) == Len(p) <= Len(q) /\ SubSeq(q, 1, Len(p)) = p

InsertedPaths == {pn[1] : pn \in inserted}

\* C1: if insert(p, n) succeeds for a path p of at least one segment, then
\* get(p) right after it returns a node equal to n (the same Page, or a
\* Directory with the same contents).
C1_InsertThenGet ==
    (op.name = "insert" /\ op.status = "ok" /\ Len(op.path) >= 1)
        => Get(root, op.path) = op.node

\* C1 witness: a Directory with a page in it was inserted two segments deep.
C1_Witness ==
    /\ op.name = "insert" /\ op.status = "ok"
    /\ Len(op.path) = 2
    /\ op.node.kind = "dir" /\ op.node.contents # EmptyDir
    /\ Get(root, op.path) = op.node

\* C2 as stated: after successful inserts only, get(q) is not-found for every
\* path q that was never the path argument of an insert, strict prefixes of
\* inserted paths included.
C2_NeverInsertedNotFound ==
    ~panicked =>
        \A q \in QueryPaths : q \notin InsertedPaths => Get(root, q) = NotFound

\* q is an inserted path, a prefix of one (an intermediate Directory), or leads
\* into the contents of an inserted Directory node
Covered(q) ==
    \E pn \in inserted :
        \/ IsPrefix(q, pn[1])
        \/ /\ IsPrefix(pn[1], q)
           /\ pn[2].kind = "dir"
           /\ Get(pn[2].contents, SubSeq(q, Len(pn[1]) + 1, Len(q))) # NotFound

\* C2 amended: after successful inserts only, get(q) is not-found for every
\* path q that is neither an inserted path, nor a prefix of an inserted path,
\* nor an inserted path followed by a path that resolves inside the Directory
\* node inserted there.
C2_UncoveredNotFound ==
    ~panicked => \A q \in QueryPaths : ~Covered(q) => Get(root, q) = NotFound

\* C2 witness: two inserts succeeded, and a path that is not covered lies in
\* a directory that exists.
C2_Witness ==
    /\ ~panicked /\ Cardinality(inserted) = 2
    /\ \E q \in QueryPaths :
          /\ Len(q) = 2 /\ ~Covered(q)
          /\ Get(root, SubSeq(q, 1, 1)).kind = "dir"
          /\ Get(root, q) = NotFound

\* C3: an insert whose final segment is occupied in its parent directory (by
\* a Page or a Directory, inserted or created as an intermediate) fails, and
\* get still returns the node that was stored there before.
C3_OccupiedInsertFails ==
    (op.name = "insert" /\ Get(prev, op.path) # NotFound)
        => /\ op.status = "Cannot insert if already occupied"
           /\ Get(root, op.path) = Get(prev, op.path)

\* C3 witness: an insert failed on a slot held by a Directory that an earlier
\* insert created as an intermediate.
C3_Witness ==
    /\ op.name = "insert" /\ op.status = "Cannot insert if already occupied"
    /\ op.path \notin InsertedPaths
    /\ Get(prev, op.path).kind = "dir"
    /\ Get(root, op.path) = Get(prev, op.path)

(***************************************************************************)
(* Claims about rendering text, checked under SpecRender.                  *)
(***************************************************************************)
Entities ==
    {<<"&", "a", "m", "p", ";">>, <<"&", "l", "t", ";">>, <<"&", "g", "t", ";">>,
     <<"&", "q", "u", "o", "t", ";">>, <<"&", "#", "3", "9", ";">>,
     <<"&", "#", "9", "2", ";">>}

EntityChar(entity) ==
    CASE entity = <<"&", "a", "m", "p", ";">> -> "&"
      [] entity = <<"&", "l", "t", ";">> -> "<"
      [] entity = <<"&", "g", "t", ";">> -> ">"
      [] entity = <<"&", "q", "u", "o", "t", ";">> -> "\""
      [] entity = <<"&", "#", "3", "9", ";">> -> "'"
      [] entity = <<"&", "#", "9", "2", ";">> -> "\\"

\* the entities that the output o carries at position k
EntitiesAt(o, k) ==
    {e \in Entities : k + Len(e) - 1 <= Len(o) /\ SubSeq(o, k, k + Len(e) - 1) = e}

\* one pass over o from position k that replaces each entity by its character
\* and copies every other character
RECURSIVE Decode(_, _)
Decode(o, k) ==
    IF k > Len(o) THEN <<>>
    ELSE IF EntitiesAt(o, k) # {}
         THEN LET e == CHOOSE x \in EntitiesAt(o, k) : TRUE
              IN <<EntityChar(e)>> \o Decode(o, k + Len(e))
         ELSE <<o[k]>> \o Decode(o, k + 1)

\* C4: the rendering of a str holds no bare < > " ' or \, every & in it
\* starts one of the six entities, and replacing each entity by its character
\* gives the str back.
C4_EscapeRoundTrip ==
    rendered # "no" =>
        /\ rendered = "ok"
        /\ \A k \in 1 .. Len(html) :
              /\ html[k] \notin {"<", ">", "\"", "'", "\\"}
              /\ html[k] = "&" => EntitiesAt(html, k) # {}
        /\ Decode(html, 1) = text

\* C4 witness: a str that spells an entity, next to a character that is
\* escaped and a two-byte character, was rendered.
C4_Witness ==
    /\ rendered = "ok"
    /\ text = <<"e'", "\\", "&", "l">>
    /\ html = <<"e'", "&", "#", "9", "2", ";", "&", "a", "m", "p", ";", "l">>

(***************************************************************************)
(* Claims about Page::parse and Section::parse, checked under SpecPage.    *)
(***************************************************************************)
\* syn::parse2 of the record that kind names
RecordParse(k, ts) ==
    ParseToEnd(IF k = "page" THEN PageParse(ts) ELSE SectionParse(ts))

RequiredFields(k) ==
    IF k = "page" THEN {"title", "body"} ELSE {"id", "title", "body"}

LegalFields(k) == RequiredFields(k) \cup {"children"}

DeclaredFields(ds) == {ds[i].name : i \in DOMAIN ds}

\* every declaration is written as the grammar has it, name : value, and
\* names a field of the record
Grammatical(k, ds) ==
    \A i \in DOMAIN ds : ds[i].form = "plain" /\ ds[i].name \in LegalFields(k)

\* the declarations that repeat the name of an earlier one
Repeats(ds) == {j \in DOMAIN ds : \E i \in 1 .. j - 1 : ds[i].name = ds[j].name}

MissingError(k, field) ==
    CASE k = "page" /\ field = "title" -> "missing page title"
      [] k = "page" /\ field = "body" -> "missing page body"
      [] k = "section" /\ field = "id" -> "missing section id"
      [] k = "section" /\ field = "title" -> "missing section title"
      [] k = "section" /\ field = "body" -> "missing section body"

DeclaredError(k, field) ==
    CASE k = "page" /\ field = "title" -> "page title already declared"
      [] k = "page" /\ field = "body" -> "page body already declared"
      [] k = "page" /\ field = "children" -> "page children already declared"
      [] k = "section" /\ field = "id" -> "section id already declared"
      [] k = "section" /\ field = "title" -> "section title already declared"
      [] k = "section" /\ field = "body" -> "section body already declared"
      [] k = "section" /\ field = "children" -> "section children already declared"

\* C5: parsing a Page or Section record whose token stream ends without one
\* of its required fields fails with the missing error of such a field,
\* whatever other fields it declares; no record with a defaulted field comes
\* out.
C5_MissingFieldReported ==
    (/\ parsed
     /\ Grammatical(kind, decls)
     /\ Repeats(decls) = {}
     /\ RequiredFields(kind) \ DeclaredFields(decls) # {})
        => /\ ~result.ok
           /\ result.err \in {MissingError(kind, f) :
                                f \in RequiredFields(kind) \ DeclaredFields(decls)}

\* C6: parsing a Page or Section record that declares a field name a second
\* time fails at the second declaration with the already declared error of
\* that field.
C6_DuplicateFieldReported ==
    (/\ parsed
     /\ Grammatical(kind, decls)
     /\ Repeats(decls) # {})
        => LET second == CHOOSE j \in Repeats(decls) :
                             \A i \in Repeats(decls) : j <= i
           IN /\ ~result.ok
              /\ result.err = DeclaredError(kind, decls[second].name)

\* C7: the token stream title : STRING body : BODY, BODY being one or more
\* blocking components, is accepted by Page::parse and yields a Page with
\* that title, that body and no children.
C7_TitleThenBodyAccepted ==
    (/\ parsed
     /\ kind = "page"
     /\ Len(decls) = 2
     /\ decls[1].name = "title" /\ decls[1].form = "plain"
     /\ decls[2].name = "body" /\ decls[2].form = "plain")
        => /\ result.ok
           /\ result.val.title = [name |-> "title", value |-> decls[1].value[1].v]
           /\ result.val.body =
                  [name |-> "body", value |-> BodyParse(decls[2].value).val]
           /\ result.val.children = NoField

\* the declarations ds in the order that the permutation p gives
Permuted(ds, p) == [i \in DOMAIN ds |-> ds[p[i]]]

FieldOrders(n) ==
    {p \in [1 .. n -> 1 .. n] : \A i, j \in 1 .. n : p[i] = p[j] => i = j}

\* C8: for a Page or Section record that parses successfully, every
\* permutation of its declarations parses successfully too and yields the
\* same record.
C8_FieldOrderIrrelevant ==
    (parsed /\ result.ok) =>
        \A p \in FieldOrders(Len(decls)) :
            RecordParse(kind, RecordTokens(Permuted(decls, p))) = result

(***************************************************************************)
(* Claims about inline components, checked under SpecInline.               *)
(***************************************************************************)
\* the stream is l, then a stream that is an inline component by itself, then
\* a literal location
IsLinkThenLocation(ts) ==
    /\ Len(ts) >= 4
    /\ ts[1] = Ident(LinkPrefix)
    /\ ts[Len(ts) - 1] \in {Punct("/"), Punct("@")}
    /\ ts[Len(ts)].t = "lit"
    /\ ParseToEnd(InlineComponentParse(SubSeq(ts, 2, Len(ts) - 2))).ok

\* C9: parsing l, an inline component and then a literal location succeeds
\* and yields a Link whose target is that component and whose location is
\* that location.
C9_LinkTakesLiteralLocation ==
    (parsed /\ IsLinkThenLocation(input)) =>
        /\ result.ok
        /\ result.val =
             <<Plain([term |-> "link",
                      target |-> InlineComponentParse(
                                     SubSeq(input, 2, Len(input) - 2)).val,
                      location |-> Plain(LocationParse(
                                     SubSeq(input, Len(input) - 1,
                                            Len(input))).val)])>>

\* the stream with every pair of grouping parentheses removed
RECURSIVE StripParens(_)
StripParens(ts) ==
    IF ts = <<>> THEN <<>>
    ELSE IF ts[1].t = "group" /\ ts[1].v = "paren"
         THEN StripParens(ts[1].ts) \o StripParens(Tail(ts))
         ELSE <<ts[1]>> \o StripParens(Tail(ts))

\* no term, at any depth, stands for a group
RECURSIVE NoGroupTerm(_)
NoGroupTerm(terms) ==
    \A k \in DOMAIN terms :
        \/ terms[k].inlinable = "inlined"
        \/ terms[k].item.term \in {"text", "location"}
        \/ /\ terms[k].item.term \in {"bold", "italic", "preformatted", "link"}
           /\ NoGroupTerm(terms[k].item.target)

\* C10 as stated: parsing an inline component yields the term sequence that
\* parsing the stream with its grouping parentheses removed yields, at any
\* nesting depth, and no term of the result stands for a group.
C10_GroupsFlattened ==
    (parsed /\ result.ok) =>
        LET flat == ParseToEnd(InlineComponentParse(StripParens(input)))
        IN flat.ok /\ flat.val = result.val /\ NoGroupTerm(result.val)

\* a prefix keyword b, i, c or l occurs in the stream or in a group of it
RECURSIVE HasPrefixKeyword(_)
HasPrefixKeyword(ts) ==
    \E k \in DOMAIN ts :
        \/ ts[k].t = "ident"
        \/ ts[k].t = "group" /\ ts[k].v = "paren" /\ HasPrefixKeyword(ts[k].ts)

\* no pair of grouping parentheses of the stream, at any depth, encloses a
\* prefix keyword
RECURSIVE KeywordFreeGroups(_)
KeywordFreeGroups(ts) ==
    \A k \in DOMAIN ts :
        (ts[k].t = "group" /\ ts[k].v = "paren") => ~HasPrefixKeyword(ts[k].ts)

\* C10 amended: when no pair of grouping parentheses encloses a prefix
\* keyword (b, i, c, l), parsing an inline component yields the term sequence
\* that parsing the stream with its grouping parentheses removed yields, at
\* any nesting depth; and no term of any result stands for a group.
C10_KeywordFreeGroupsFlattened ==
    (parsed /\ result.ok) =>
        /\ NoGroupTerm(result.val)
        /\ KeywordFreeGroups(input) =>
              LET flat == ParseToEnd(InlineComponentParse(StripParens(input)))
              IN flat.ok /\ flat.val = result.val

\* C10 witness: a stream with a group inside a group, a text in each, parsed
\* to the two text terms in the order written.
C10_Witness ==
    /\ parsed /\ result.ok
    /\ input = <<Group("paren", <<LitStr("x"), Group("paren", <<LitStr("y")>>)>>)>>
    /\ result.val = <<Plain([term |-> "text", literal |-> "x"]),
                      Plain([term |-> "text", literal |-> "y"])>>

\* the stream is one or more of the keywords b, i, c and then one literal
IsFormatChain(ts) ==
    /\ Len(ts) >= 2
    /\ ts[Len(ts)].t = "lit"
    /\ \A k \in 1 .. Len(ts) - 1 :
           /\ ts[k].t = "ident"
           /\ ts[k].v \in {BoldPrefix, ItalicPrefix, PreformattedPrefix}

FormatVariant(prefix) ==
    CASE prefix = BoldPrefix -> "bold"
      [] prefix = ItalicPrefix -> "italic"
      [] prefix = PreformattedPrefix -> "preformatted"

\* the terms a chain stands for: one term for its first keyword, holding the
\* terms of the rest of the chain; the literal alone is one text term
RECURSIVE ChainTerms(_)
ChainTerms(ts) ==
    IF Len(ts) = 1 THEN <<Plain([term |-> "text", literal |-> ts[1].v])>>
    ELSE <<Plain([term |-> FormatVariant(ts[1].v),
                  target |-> ChainTerms(Tail(ts))])>>

\* C11: parsing a chain of the keywords b, i, c followed by one string literal
\* succeeds and yields one term for the first keyword whose payload is one
\* term for the second, and so on, the innermost payload being the one text.
C11_KeywordsNestAsWritten ==
    (parsed /\ IsFormatChain(input)) =>
        result.ok /\ result.val = ChainTerms(input)

\* C11 witness: b i "x" parsed to Bold holding Italic holding the text x.
C11_Witness ==
    /\ parsed /\ result.ok
    /\ input = <<Ident(BoldPrefix), Ident(ItalicPrefix), LitStr("x")>>
    /\ result.val =
         <<Plain([term |-> "bold",
                  target |-> <<Plain([term |-> "italic",
                                      target |-> <<Plain([term |-> "text",
                                                          literal |-> "x"])>>])>>])>>

(***************************************************************************)
(* Claims about the traversal, checked under SpecPages.                    *)
(***************************************************************************)
\* the pages reachable from dir, each with its path, loc being the path of dir
RECURSIVE AllPages(_, _)
AllPages(dir, loc) ==
    UNION {IF dir[f].kind = "page"
           THEN {<<Append(loc, f), dir[f].page>>}
           ELSE AllPages(dir[f].contents, Append(loc, f)) : f \in DOMAIN dir}

YieldedItems == {yielded[k] : k \in DOMAIN yielded}

\* C12: iterating the root of a tree built by inserts yields only pages, each
\* with the path at which get returns it, none twice, never more items than
\* the tree has pages; and when next returns None every page reachable from
\* the root has been yielded (directories, also empty ones, yield nothing).
C12_PagesYieldsEveryPageOnce ==
    iterating # "no" =>
        /\ \A k \in DOMAIN yielded :
               Get(root, yielded[k][1]) = PageNode(yielded[k][2])
        /\ \A j, k \in DOMAIN yielded : j # k => yielded[j][1] # yielded[k][1]
        /\ Len(yielded) <= Cardinality(AllPages(root, <<>>))
        /\ iterating = "done" => YieldedItems = AllPages(root, <<>>)

\* C12 witness: an iteration that ended after two pages, one of them below a
\* directory of the root.
C12_Witness ==
    /\ iterating = "done"
    /\ Len(yielded) = 2
    /\ \E k \in DOMAIN yielded : Len(yielded[k][1]) = 2

(***************************************************************************)
(* Claims about Generator::gen, checked under SpecGen.                     *)
(***************************************************************************)
\* no I/O call of the run has failed
NoFailure == \A k \in DOMAIN log : log[k].ok

PageFiles == {f \in files : f.kind = "page"}

\* the calls of gen_pages that created a page file
PageCreations ==
    {k \in DOMAIN log :
        log[k].by = "gen_pages" /\ log[k].op = "create" /\ log[k].ok}

\* C13: when gen returns Ok and no I/O call failed, the page files under
\* output_dir are exactly one per page of the site tree, at the path made of
\* the segments of the page's path, holding the page rendered with its own
\* path as location, each created once; a site of one page gives one file.
C13_OneFilePerPage ==
    (gen.pc = "ok" /\ NoFailure) =>
        /\ PageFiles =
               {[path |-> item[1], kind |-> "page",
                 content |-> [page |-> item[2], location |-> item[1]],
                 complete |-> TRUE] : item \in AllPages(root, <<>>)}
        /\ Cardinality(PageCreations) = Cardinality(AllPages(root, <<>>))
        /\ \A j, k \in PageCreations : log[j].path = log[k].path => j = k

\* C13 witness: gen returned Ok without a failure on a site of two pages, one
\* of them below a directory, after copying the assets.
C13_Witness ==
    /\ gen.pc = "ok" /\ NoFailure
    /\ Cardinality(AllPages(root, <<>>)) = 2
    /\ \E f \in PageFiles : Len(f.path) = 2
    /\ \E f \in files : f.kind = "asset"

(***************************************************************************)
(* More claims about Page::parse and Section::parse, under SpecPage.       *)
(***************************************************************************)
\* the declarations whose name is not a field of the record
UnknownFields(k, ds) == {i \in DOMAIN ds : ds[i].name \notin LegalFields(k)}

\* C14: parsing a Page or Section record in which an identifier that is not
\* one of the record's field names stands in field-name position fails; the
\* identifier is never skipped.
C14_UnknownFieldReported ==
    (parsed /\ UnknownFields(kind, decls) # {}) => ~result.ok

(***************************************************************************)
(* More claims about the document tree, checked under SpecTree.            *)
(***************************************************************************)
\* the strict, non-empty prefixes of the path that resolve to a Page in dir
PagePrefixes(dir, path) ==
    {n \in 1 .. Len(path) - 1 : Get(dir, SubSeq(path, 1, n)).kind = "page"}

\* no Page of the tree holds anything
RECURSIVE NoPageHoldsChildren(_)
NoPageHoldsChildren(dir) ==
    \A f \in DOMAIN dir :
        IF dir[f].kind = "page" THEN dir[f].contents = EmptyDir
        ELSE NoPageHoldsChildren(dir[f].contents)

\* C15: an insert whose path has a non-final segment that resolves to a Page
\* fails, get returns that Page afterwards as before, and no Page of the tree
\* ever holds children.
C15_InsertThroughPageFails ==
    /\ NoPageHoldsChildren(root)
    /\ (op.name = "insert" /\ PagePrefixes(prev, op.path) # {}) =>
           /\ op.status # "ok"
           /\ \A n \in PagePrefixes(prev, op.path) :
                  Get(root, SubSeq(op.path, 1, n)) =
                      Get(prev, SubSeq(op.path, 1, n))

\* C15 witness: an insert at [a, b] while [a] is a Page has panicked.
C15_Witness ==
    /\ op.name = "insert"
    /\ Len(op.path) = 2
    /\ PagePrefixes(prev, op.path) = {1}
    /\ op.status = "Must be a directory"
    /\ Get(root, SubSeq(op.path, 1, 1)).kind = "page"

(***************************************************************************)
(* Claims about the peek predicates, checked under SpecInline.             *)
(***************************************************************************)
\* the tokens a stream may begin with: every keyword, other identifiers, a
\* literal, every punctuation mark, both groups
NextTokens ==
    {Ident(n) : n \in {BoldPrefix, ItalicPrefix, PreformattedPrefix, LinkPrefix,
                       ParagraphPrefix, ImagePrefix, TitleFieldName, "e"}}
        \cup {LitStr("x")}
        \cup {Punct(m) : m \in {"/", "@", "$", ":", ";", "#"}}
        \cup {Group("paren", <<>>), Group("bracket", <<>>)}

AtMostOne(peeks) == Cardinality({k \in DOMAIN peeks : peeks[k]}) <= 1

\* at each choice point of the parser at most one alternative peeks true
Determinate(ts) ==
    /\ AtMostOne(<<ParagraphPeek(ts), ImagePeek(ts)>>)
    /\ AtMostOne(<<TextPeek(ts), LocationPeek(ts), BoldPeek(ts), ItalicPeek(ts),
                   PreformattedPeek(ts), LinkPeek(ts)>>)
    /\ AtMostOne(<<ComponentTermPeek(ts), PeekGroup(ts, "paren")>>)
    /\ AtMostOne(<<InternalLocPeek(ts), UrlPeek(ts)>>)
    /\ AtMostOne(<<InlineRustPeek(ts), ComponentTermPeek(ts)>>)
    /\ AtMostOne(<<InlineRustPeek(ts), LocationPeek(ts)>>)
    /\ AtMostOne(<<InlineRustPeek(ts), PeekLitStr(ts)>>)

\* C16: at every choice point of the parser (blocking component, inline term
\* or group, location, literal or slot), whatever the next token of the
\* stream is, at most one alternative peeks true.
C16_PeeksAreDisjoint ==
    /\ Determinate(input)
    /\ \A token \in NextTokens : Determinate(<<token>> \o input)

\* C16 witness: a parsed stream that begins with the keyword b, where of the
\* inline terms Bold peeks true and is the only one.
C16_Witness ==
    /\ parsed
    /\ BoldPeek(input)
    /\ ~(TextPeek(input) \/ LocationPeek(input) \/ ItalicPeek(input)
            \/ PreformattedPeek(input) \/ LinkPeek(input))

(***************************************************************************)
(* The escaper as a map over characters, checked under SpecRender.         *)
(***************************************************************************)
\* what one character of a text becomes in the output
CharMapping(ch) ==
    CASE ch = "&" -> <<"&", "a", "m", "p", ";">>
      [] ch = "<" -> <<"&", "l", "t", ";">>
      [] ch = ">" -> <<"&", "g", "t", ";">>
      [] ch = "\"" -> <<"&", "q", "u", "o", "t", ";">>
      [] ch = "'" -> <<"&", "#", "3", "9", ";">>
      [] ch = "\\" -> <<"&", "#", "9", "2", ";">>
      [] OTHER -> <<ch>>

\* the mappings of the chars of s from the k-th on, one after the other
RECURSIVE MappedFrom(_, _)
MappedFrom(s, k) ==
    IF k > Len(s) THEN <<>> ELSE CharMapping(s[k]) \o MappedFrom(s, k + 1)

EscapedChars == {"&", "<", ">", "\"", "'", "\\"}

\* C17: the rendering of a str is the mappings of its chars in order, where
\* & < > " ' \ map to their entities and any other char maps to itself; so
\* the chars of an entity written out are not escaped again, and a str with
\* none of the six chars is rendered as it is.
C17_RenderingMapsEachChar ==
    rendered # "no" =>
        /\ rendered = "ok"
        /\ html = MappedFrom(text, 1)
        /\ (\A k \in DOMAIN text : text[k] \notin EscapedChars) => html = text

\* C17 witness: a str with two escaped chars in a row between chars that are
\* not escaped, one of them of two bytes, was rendered.
C17_Witness ==
    /\ rendered = "ok"
    /\ text = <<"l", "<", "&", "e'">>
    /\ html = <<"l", "&", "l", "t", ";", "&", "a", "m", "p", ";", "e'">>

(***************************************************************************)
(* Lookups that cannot resolve, checked under SpecTree.                    *)
(***************************************************************************)
\* what the tree holds at path, going down one segment at a time: nothing
\* where a segment is not a key of the directory reached, or where a segment
\* before the last is a Page
RECURSIVE Holds(_, _)
Holds(dir, path) ==
    IF path = <<>> THEN DirNode(dir)
    ELSE IF Head(path) \notin DOMAIN dir THEN NotFound
    ELSE IF Len(path) = 1 THEN dir[Head(path)]
    ELSE IF dir[Head(path)].kind = "dir"
         THEN Holds(dir[Head(path)].contents, Tail(path))
         ELSE NotFound

\* some non-final segment of path is absent from dir or is a Page
Blocked(dir, path) ==
    \E n \in 1 .. Len(path) - 1 : Holds(dir, SubSeq(path, 1, n)).kind # "dir"

\* C18: get(path) is not-found whenever a non-final segment of the path is
\* absent or resolves to a Page, and a get leaves the tree as it was.
C18_GetBlockedIsNotFound ==
    /\ \A q \in QueryPaths : Blocked(root, q) => Get(root, q) = NotFound
    /\ op.name = "get" =>
           /\ root = prev
           /\ Blocked(prev, op.path) => op.node = NotFound

\* C18 witness: a get went through a segment that is a Page and found nothing,
\* in a tree that holds that Page.
C18_Witness ==
    /\ op.name = "get"
    /\ Len(op.path) = 2
    /\ Holds(prev, SubSeq(op.path, 1, 1)).kind = "page"
    /\ op.node = NotFound
    /\ root = prev

(***************************************************************************)
(* Assets and pages in Generator::gen, checked under SpecGen.              *)
(***************************************************************************)
\* the I/O calls made by copy_assets and by gen_pages, as places of the log
CopyCalls == {k \in DOMAIN log : log[k].by = "copy_assets"}
PageCalls == {k \in DOMAIN log : log[k].by = "gen_pages"}

AssetCopies == {f \in files : f.kind = "asset"}

\* the paths of the files that the assets directory holds below dir
RECURSIVE AssetPaths(_, _)
AssetPaths(tree, dir) ==
    UNION {IF tree[name].kind = "dir"
           THEN AssetPaths(tree[name].contents, Append(dir, name))
           ELSE {Append(dir, name)} : name \in DOMAIN tree}

\* C19: when assets_dir equals output_dir gen makes no call of copy_assets
\* and copies nothing; otherwise every call of copy_assets comes before every
\* call of gen_pages and all the assets are copied by then, and once a call of
\* copy_assets has failed gen ends in error with no call of gen_pages made
\* and no page file written.
C19_AssetsBeforePages ==
    /\ (gen.pc # "idle" /\ gen.assets_dir = gen.output_dir) =>
           CopyCalls = {} /\ AssetCopies = {}
    /\ \A c \in CopyCalls, g \in PageCalls : c < g
    /\ (PageCalls # {} /\ gen.assets_dir # gen.output_dir) =>
           {f.path : f \in AssetCopies} = AssetPaths(gen.assets, <<>>)
    /\ (\E c \in CopyCalls : ~log[c].ok) =>
           gen.pc = "err" /\ PageCalls = {} /\ PageFiles = {}

\* C19 witness: with assets_dir other than output_dir, gen copied an asset of
\* a subdirectory and then wrote a page file.
C19_Witness ==
    /\ gen.assets_dir # gen.output_dir
    /\ \E f \in AssetCopies : Len(f.path) = 2
    /\ PageFiles # {}
    /\ \E c \in CopyCalls : log[c].op = "copy"

\* C20: once an I/O call of gen_pages has failed, generation has ended in
\* error and that call is the last one made, so no later page is written or
\* tried again; and every page file created so far is still there.
C20_FailureAbortsGeneration ==
    /\ \A k \in PageCalls : ~log[k].ok => gen.pc = "err" /\ k = Len(log)
    /\ \A k \in PageCreations : \E f \in PageFiles : f.path = log[k].path

(***************************************************************************)
(* What an insert leaves alone, checked under SpecTree.                    *)
(***************************************************************************)
InsertFailures ==
    {"Cannot insert at root", "Cannot insert if already occupied",
     "Must be a directory"}

\* C21: an insert that fails, at the root path, at an occupied final segment
\* or at a Page in a non-final segment, leaves the whole tree as it was
\* before the call; no intermediate Directory is created by it.
C21_FailedInsertChangesNothing ==
    op.name = "insert" =>
        /\ op.status \in InsertFailures \cup {"ok"}
        /\ op.status \in InsertFailures => root = prev

\* C21 witness: an insert of two segments found its final segment occupied
\* below a Directory and failed, the tree being what it was.
C21_Witness ==
    /\ op.name = "insert"
    /\ op.status = "Cannot insert if already occupied"
    /\ Len(op.path) = 2
    /\ Holds(prev, SubSeq(op.path, 1, 1)).kind = "dir"
    /\ root = prev

\* q is p continued by a path that resolves in the Directory node n
InsideNode(q, p, n) ==
    /\ IsPrefix(p, q)
    /\ Len(q) > Len(p)
    /\ n.kind = "dir"
    /\ Get(n.contents, SubSeq(q, Len(p) + 1, Len(q))) # NotFound

\* C22: after a successful insert(p, n) every path that resolved to a Page
\* resolves to the same Page, every path that resolved to a Directory
\* resolves to a Directory, and a path that resolves only now is p, a prefix
\* of p, or p continued by a path that resolves inside n.
C22_InsertKeepsWhatWasStored ==
    (op.name = "insert" /\ op.status = "ok") =>
        \A q \in QueryPaths :
            /\ Get(prev, q).kind = "page" => Get(root, q) = Get(prev, q)
            /\ Get(prev, q).kind = "dir" => Get(root, q).kind = "dir"
            /\ (Get(prev, q) = NotFound /\ Get(root, q) # NotFound) =>
                   IsPrefix(q, op.path) \/ InsideNode(q, op.path, op.node)

\* C22 witness: an insert put a Directory node holding a Page into a
\* directory that held a Page already; that Page is still found, and the
\* Page inside the node is found now.
C22_Witness ==
    /\ op.name = "insert" /\ op.status = "ok"
    /\ Len(op.path) = 2
    /\ op.node.kind = "dir"
    /\ \E q \in QueryPaths :
           /\ Len(q) = 2 /\ q[1] = op.path[1] /\ q # op.path
           /\ Get(prev, q).kind = "page"
           /\ Get(root, q) = Get(prev, q)
    /\ \E q \in QueryPaths :
           /\ InsideNode(q, op.path, op.node)
           /\ Get(prev, q) = NotFound
           /\ Get(root, q).kind = "page"

(***************************************************************************)
(* The loops of the parsers, one iteration at a time, checked under        *)
(* SpecParse: records and inline markup alike.                             *)
(***************************************************************************)
InitParse == InitPage \/ InitInline

NextParse == NextPage \/ NextInline

SpecParse == InitParse /\ [][NextParse]_vars

\* one iteration of the while loop of inline::Component::parse, entered
\* with Component::peek true: a group in parentheses or one term
ComponentIteration(ts) ==
    IF PeekGroup(ts, "paren")
    THEN LET WithChild(child) ==
                 IF ~child.ok THEN child
                 ELSE Ok(child.val, Tail(ts),
                         child.unexpected \/ child.rest # <<>>)
         IN WithChild(InlineComponentParse(ts[1].ts))
    ELSE InlinableTermParse(ts)

\* one iteration of the while loop of Children::parse, entered with
\* Children::peek true and the sections so far
ChildrenIteration(ts, sections) ==
    IF sections = <<>> THEN Err(PushPunctPanic)
    ELSE LET WithSection(section) ==
                 IF ~section.ok THEN section
                 ELSE Ok(section.val, Tail(ts),
                         section.unexpected \/ section.rest # <<>>)
         IN WithSection(SectionParse(ts[1].ts))

\* one iteration of the while loop of Page::parse (k = "page") or of
\* Section::parse, entered with the stream not empty and no field declared
\* yet: the key, then the field it names, or nothing for any other key
FieldIteration(k, ts) ==
    IF ts[1].t # "ident" THEN Err("expected identifier")
    ELSE IF k = "section" /\ ts[1].v = IdFieldName
    THEN FieldParse(Tail(ts), IdFieldName, "LitStr")
    ELSE IF ts[1].v = TitleFieldName
    THEN FieldParse(Tail(ts), TitleFieldName,
                    IF k = "page" THEN "LitStr" ELSE "InlineComp")
    ELSE IF ts[1].v = BodyFieldName
    THEN FieldParse(Tail(ts), BodyFieldName, "Body")
    ELSE IF ts[1].v = ChildrenFieldName
    THEN FieldParse(Tail(ts), ChildrenFieldName, "Children")
    ELSE Ok(NoField, Tail(ts), FALSE)

\* the streams a parser can be handed while ts is parsed: what is left of ts
\* from any token on, and the same for the content of every group
RECURSIVE NestedStreams(_)
NestedStreams(ts) ==
    {SubSeq(ts, k, Len(ts)) : k \in 1 .. Len(ts) + 1}
        \cup UNION {NestedStreams(ts[k].ts) :
                       k \in {j \in DOMAIN ts : ts[j].t = "group"}}

\* the iteration that gave r on ts consumed a token, or returned an error
Advances(r, ts) ==
    IF r.ok THEN Len(r.rest) < Len(ts) ELSE r.err # PushPunctPanic

\* C23: on every stream, an iteration of the field loop of Page::parse and
\* of Section::parse, of the loop of Children::parse and of the loop of the
\* inline component consumes at least one token or returns an error; and
\* every parse ends in a value or in an error.
C23_LoopsAdvanceOrFail ==
    parsed =>
        /\ \A ts \in NestedStreams(input) :
               /\ InlineComponentPeek(ts) => Advances(ComponentIteration(ts), ts)
               /\ ChildrenPeek(ts) => Advances(ChildrenIteration(ts, <<>>), ts)
               /\ ts # <<>> => /\ Advances(FieldIteration("page", ts), ts)
                               /\ Advances(FieldIteration("section", ts), ts)
        /\ result.err # PushPunctPanic

====
